---- MODULE Spec2Model ----
(***************************************************************************)
(* Certificate lifecycle tracker (vinaya-cg/certificate-monitor).          *)
(*                                                                         *)
(* The model covers the status calculators of the Lambda functions and of  *)
(* the shared helpers, the scheduled monitor sweep, the server-scan        *)
(* store_certificate and the ACM sync update_existing_certificate, all     *)
(* acting on one DynamoDB certificates table.                              *)
(*                                                                         *)
(* Time.  A datetime is an integer number of ticks; a day has TicksPerDay  *)
(* ticks and tick 0 of a day is 00:00:00.000000.  A date string            *)
(* 'YYYY-MM-DD' of day n parses (strptime) to the datetime n * TicksPerDay.*)
(* timedelta.days is the floor of the tick difference over TicksPerDay,    *)
(* as in Python.                                                           *)
(***************************************************************************)
EXTENDS Integers, Sequences, FiniteSets, TLC

VARIABLES
    now,        \* the UTC clock, in ticks (datetime.utcnow())
    table,      \* the certificates table: CertificateID -> item or NoItem
    logs,       \* number of entries for a change of an item in the logs table
    mon,        \* the monitor Lambda: position, scanned items, results
    lastMerge,  \* the last observation merged into an existing item
    sweeps,     \* history of completed monitor sweeps since the last write
    calc,       \* the last call of a status calculator and its outcome
    snow,       \* ServiceNow: incidents created, per correlation id
    tix,        \* the ticket-creator Lambda: position, work list, results
    api,        \* the last request served by an API or webhook handler
    acm         \* the ACM sync Lambda: the statistics of its last run

vars == <<now, table, logs, mon, lastMerge, sweeps, calc, snow, tix, api, acm>>

\* The state of the ticketing, API and ACM-statistics side.
ext == <<snow, tix, api, acm>>

----------------------------------------------------------------------------
(* Bounds of the model *)

TicksPerDay == 2    \* instants distinguished within one day
BaseDay == 100      \* the calendar day on which the model starts
MaxTicks == 3       \* number of ticks the clock advances
MaxLogs == 1        \* log entries counted before the counter saturates
MaxPriorityDays == 31   \* calculate_priority is called on -31 .. 31 days
MaxTickets == 2     \* incidents counted per certificate in ServiceNow

(* Program constants *)

EXPIRY_THRESHOLD == 30      \* the monitor's EXPIRY_THRESHOLD (default 30)
EXPIRY_THRESHOLD_DAYS == 30 \* the ticket creator's EXPIRY_THRESHOLD_DAYS

----------------------------------------------------------------------------
(* Dates and the clock *)

\* A date string as stored in ExpiryDate or given to a calculator:
\* "ymd" is 'YYYY-MM-DD' of day `day`, "raw" is text no format parses
\* ('not-a-date'), "none" is a missing attribute / None, "win" is the
\* PowerShell text 'MM/DD/YYYY hh:mm:ss AM' of a moment of day `day`.
Ymd(d) == [fmt |-> "ymd", day |-> d]
RawDate == [fmt |-> "raw", day |-> 0]
NoDate == [fmt |-> "none", day |-> 0]

ExpiryDays ==
    { BaseDay - 10, BaseDay - 1, BaseDay, BaseDay + 1,
      BaseDay + EXPIRY_THRESHOLD, BaseDay + EXPIRY_THRESHOLD + 1,
      BaseDay + EXPIRY_THRESHOLD + 2, BaseDay + 45 }

DateStrs == { Ymd(d) : d \in ExpiryDays } \cup { RawDate, NoDate }

FirstTick == BaseDay * TicksPerDay
LastTick == FirstTick + MaxTicks

\* datetime.strptime(s, '%Y-%m-%d'): ValueError on text that does not match,
\* TypeError on None.
strptime_ok(s) == s.fmt = "ymd"
strptime(s) == s.day * TicksPerDay

\* datetime.utcnow().strftime('%Y-%m-%d'), as a day number
utc_date(t) == t \div TicksPerDay

\* timedelta.days
timedelta_days(delta) == delta \div TicksPerDay

----------------------------------------------------------------------------
(* Statuses *)

ManualStatuses == { "Renewal in Progress", "Renewal Done" }
DateStatuses == { "Expired", "Due for Renewal", "Active", "Unknown" }
Statuses == ManualStatuses \cup DateStatuses \cup { "" }

\* Item.get('Status', '') of an item that may lack the attribute is "".

----------------------------------------------------------------------------
(* Status calculators.  Each reads the clock (utcnow) when it is called. *)

\* certificate_monitor.calculate_new_status: days_until_expiry
monitor_days_until_expiry(expiry_date) ==
    timedelta_days(strptime(expiry_date) - now)

\* certificate_monitor.calculate_new_status.  ValueError (unparsable text)
\* is caught and keeps the status; None raises TypeError to the caller.
\* (First the variant that takes a certificate for expired one day late.)
calculate_new_status_expired_late(expiry_date, current_status) ==
    IF strptime_ok(expiry_date)
    THEN LET days_until_expiry == monitor_days_until_expiry(expiry_date) IN
         IF days_until_expiry < -1 THEN "Expired"
         ELSE IF days_until_expiry <= EXPIRY_THRESHOLD
                 /\ current_status \notin ManualStatuses THEN "Due for Renewal"
         ELSE IF current_status \in ManualStatuses THEN current_status
         ELSE "Active"
    ELSE current_status

calculate_new_status(expiry_date, current_status) ==
    IF strptime_ok(expiry_date)
    THEN LET days_until_expiry == monitor_days_until_expiry(expiry_date) IN
         IF days_until_expiry < 0 THEN "Expired"
         ELSE IF days_until_expiry <= EXPIRY_THRESHOLD
                 /\ current_status \notin ManualStatuses THEN "Due for Renewal"
         ELSE IF current_status \in ManualStatuses THEN current_status
         ELSE "Active"
    ELSE current_status

calculate_new_status_raises(expiry_date) == expiry_date.fmt = "none"

\* certificate_helpers.calculate_days_until_expiry: today is utcnow()
\* truncated to midnight; any exception returns 0.
helpers_calculate_days_until_expiry(expiry_date) ==
    IF strptime_ok(expiry_date)
    THEN LET today == utc_date(now) * TicksPerDay IN
         timedelta_days(strptime(expiry_date) - today)
    ELSE 0

\* certificate_helpers.determine_certificate_status
determine_certificate_status(expiry_date, current_status) ==
    IF current_status \in ManualStatuses THEN current_status
    ELSE LET days_left == helpers_calculate_days_until_expiry(expiry_date) IN
         IF days_left < 0 THEN "Expired"
         ELSE IF days_left <= 30 THEN "Due for Renewal"
         ELSE "Active"

\* The status from (expiry - utcnow()).days with the fixed 30-day cutoff,
\* the body shared by the Excel processor, the server scanner and the
\* dashboard API.
status_from_days(days_until_expiry) ==
    IF days_until_expiry < 0 THEN "Expired"
    ELSE IF days_until_expiry <= 30 THEN "Due for Renewal"
    ELSE "Active"

\* excel_processor.calculate_certificate_status
excel_calculate_certificate_status(expiry_date) ==
    IF expiry_date.fmt = "none" THEN "Unknown"
    ELSE IF strptime_ok(expiry_date)
    THEN status_from_days(timedelta_days(strptime(expiry_date) - now))
    ELSE "Unknown"

\* server_certificate_scanner.calculate_certificate_status (datetime.now(),
\* the Lambda's local clock, which is UTC); a bare except returns Unknown.
scanner_calculate_certificate_status(expiry_date_str) ==
    IF strptime_ok(expiry_date_str)
    THEN status_from_days(timedelta_days(strptime(expiry_date_str) - now))
    ELSE "Unknown"

\* dashboard_api.calculate_status (both copies): fromisoformat of
\* 'YYYY-MM-DD' is midnight of that day; a bare except returns Unknown.
dashboard_calculate_status(expiry_date) ==
    IF strptime_ok(expiry_date)
    THEN status_from_days(timedelta_days(strptime(expiry_date) - now))
    ELSE "Unknown"

\* servicenow_ticket_creator.calculate_days_until_expiry
ticket_calculate_days_until_expiry(expiry_date) ==
    IF strptime_ok(expiry_date)
    THEN timedelta_days(strptime(expiry_date) - now)
    ELSE 0

\* servicenow_ticket_creator.calculate_priority.  (First the variant that
\* takes the seventh day itself for "less than one week".)
calculate_priority_week_inclusive(days_until_expiry) ==
    IF days_until_expiry < 0 THEN "1"
    ELSE IF days_until_expiry <= 7 THEN "2"
    ELSE IF days_until_expiry < 14 THEN "3"
    ELSE IF days_until_expiry < 30 THEN "4"
    ELSE "5"

calculate_priority(days_until_expiry) ==
    IF days_until_expiry < 0 THEN "1"
    ELSE IF days_until_expiry < 7 THEN "2"
    ELSE IF days_until_expiry < 14 THEN "3"
    ELSE IF days_until_expiry < 30 THEN "4"
    ELSE "5"

\* The days on which calculate_priority is called.
PriorityDays == (0 - MaxPriorityDays) .. MaxPriorityDays

----------------------------------------------------------------------------
(* The certificates table *)

Absent == "<absent>"        \* a string attribute the item does not have

PRESERVE_FIELDS ==
    { "OwnerEmail", "SupportEmail", "Application", "Notes",
      "RenewalHistory", "CustomTags", "IncidentNumber" }

\* The id add_new_certificate generates ('acm-<account>-<region>-<domain>-
\* <timestamp>').
AcmIDs == { "acm-1" }

CertIDs == { "cert-1", "cert-2" } \cup AcmIDs

\* the order table.scan() returns
ScanOrder == << "cert-1", "cert-2", "acm-1" >>

\* An item of the table.  exists = FALSE is "no item under this key".
\* Status "" is a missing or empty Status; a timestamp 0 is "never".
NoItem ==
    [ exists |-> FALSE, ExpiryDate |-> NoDate, Status |-> "",
      OwnerEmail |-> Absent, SupportEmail |-> Absent, Application |-> Absent,
      Notes |-> Absent, RenewalHistory |-> Absent, CustomTags |-> Absent,
      IncidentNumber |-> Absent, Owner |-> Absent,
      CommonName |-> Absent, AccountNumber |-> Absent, Source |-> Absent,
      ServerName |-> Absent, CertificateName |-> Absent,
      Region |-> Absent, ACM_ARN |-> Absent, ACM_Status |-> Absent,
      ACM_Type |-> Absent, ACM_KeyAlgorithm |-> Absent,
      LastScannedOn |-> 0, LastSyncedFromACM |-> 0, LastUpdatedOn |-> 0 ]

AccountId == "111122223333"
DomainName == "app.example.com"

\* Items the table may hold when the model starts: manually curated
\* records (dashboard, Excel import) in any lifecycle status.
SeedPreserved ==
    { [ OwnerEmail |-> "a@x.com", SupportEmail |-> "s@x.com",
        Application |-> "Billing", Notes |-> "n", RenewalHistory |-> "h",
        CustomTags |-> "t", IncidentNumber |-> "INC001" ],
      [ OwnerEmail |-> "a@x.com", SupportEmail |-> "",
        Application |-> "Unknown", Notes |-> Absent, RenewalHistory |-> Absent,
        CustomTags |-> "", IncidentNumber |-> "" ] }

SeedExpiry == { Ymd(BaseDay), Ymd(BaseDay + EXPIRY_THRESHOLD + 1), RawDate }
SeedStatus == { "Active", "Renewal in Progress", "Renewal Done" }

SeedItem(e, s, p) ==
    [ NoItem EXCEPT !.exists = TRUE, !.ExpiryDate = e, !.Status = s,
        !.OwnerEmail = p.OwnerEmail, !.SupportEmail = p.SupportEmail,
        !.Application = p.Application, !.Notes = p.Notes,
        !.RenewalHistory = p.RenewalHistory, !.CustomTags = p.CustomTags,
        !.IncidentNumber = p.IncidentNumber,
        !.CommonName = DomainName, !.AccountNumber = AccountId ]

SeedItems ==
    { SeedItem(e, s, p) : e \in SeedExpiry, s \in SeedStatus, p \in SeedPreserved }

\* The second item, when the table starts with two: a certificate of
\* another domain, which no server scan of the model reports.
SecondItem ==
    [ SeedItem(Ymd(BaseDay + 1), "Active",
               [ OwnerEmail |-> "b@x.com", SupportEmail |-> "s@x.com",
                 Application |-> "Portal", Notes |-> "", RenewalHistory |-> Absent,
                 CustomTags |-> Absent, IncidentNumber |-> "" ])
        EXCEPT !.CommonName = "other.example.com" ]

\* The key under which the scanned server certificate is stored
\* (instance id and thumbprint).
ScannedIDs == { "cert-1" }

Preserved(item) ==
    [ f \in PRESERVE_FIELDS |->
        CASE f = "OwnerEmail" -> item.OwnerEmail
          [] f = "SupportEmail" -> item.SupportEmail
          [] f = "Application" -> item.Application
          [] f = "Notes" -> item.Notes
          [] f = "RenewalHistory" -> item.RenewalHistory
          [] f = "CustomTags" -> item.CustomTags
          [] f = "IncidentNumber" -> item.IncidentNumber ]

NonEmpty(v) == v # Absent /\ v # ""

----------------------------------------------------------------------------
(* Monitor Lambda (certificate_monitor.py) *)

\* is_certificate_expiring: the three arguments are date strings; the
\* current and threshold dates are day numbers here.
\* (First the variant without the lower end of the window, then the one
\* whose upper end is a day later.)
is_certificate_expiring_or_expired(expiry_date, current_date, threshold_date) ==
    /\ strptime_ok(expiry_date)
    /\ expiry_date.day <= threshold_date

is_certificate_expiring_day_late(expiry_date, current_date, threshold_date) ==
    /\ strptime_ok(expiry_date)
    /\ current_date <= expiry_date.day
    /\ expiry_date.day <= threshold_date + 1

is_certificate_expiring(expiry_date, current_date, threshold_date) ==
    /\ strptime_ok(expiry_date)
    /\ current_date <= expiry_date.day
    /\ expiry_date.day <= threshold_date

\* scan_expiring_certificates: the items of table.scan() whose ExpiryDate
\* is truthy and inside the window, in scan order.
scan_expiring_certificates ==
    LET threshold_date == utc_date(now) + EXPIRY_THRESHOLD
        current_date == utc_date(now)
        Expiring(id) ==
            /\ table[id].exists
            /\ table[id].ExpiryDate.fmt # "none"
            /\ is_certificate_expiring(table[id].ExpiryDate, current_date,
                                       threshold_date)
        ids == SelectSeq(ScanOrder, Expiring)
    IN  [ i \in 1..Len(ids) |-> [ id |-> ids[i], item |-> table[ids[i]] ] ]

\* dict.get(key, default) of an attribute that may be missing
get(v, default) == IF v = Absent THEN default ELSE v

\* str.strip(), on the strings of the model that have blanks around them
strip(v) ==
    CASE v = "   " -> ""
      [] v = " INC001 " -> "INC001"
      [] OTHER -> v

\* An email address is a string with an '@' in it.
EmailAddresses == { "a@x.com", "s@x.com", "b@x.com" }
HasAt(v) == v \in EmailAddresses

\* group_certificates_by_owner: for each recipient the ids of the
\* certificates listed in the mail to it.  The owner is a recipient when
\* the stripped OwnerEmail is not empty, the support address when it is not
\* empty and differs from the owner.
\* (First the variant that groups by the owner only.)
group_certificates_by_owner_only(certificates) ==
    LET owner_email(i) == strip(get(certificates[i].item.OwnerEmail, ""))
        recipients ==
            { r \in { owner_email(i) : i \in 1..Len(certificates) } : r # "" }
    IN  [ r \in recipients |->
            { certificates[i].id : i \in { j \in 1..Len(certificates) :
                                              owner_email(j) = r } } ]

group_certificates_by_owner(certificates) ==
    LET owner_email(i) == strip(get(certificates[i].item.OwnerEmail, ""))
        support_email(i) == strip(get(certificates[i].item.SupportEmail, ""))
        ToOwner(i, r) == owner_email(i) # "" /\ owner_email(i) = r
        ToSupport(i, r) ==
            /\ support_email(i) # ""
            /\ support_email(i) # owner_email(i)
            /\ support_email(i) = r
        recipients ==
            { r \in { owner_email(i) : i \in 1..Len(certificates) }
                      \cup { support_email(i) : i \in 1..Len(certificates) } :
                \E i \in 1..Len(certificates) : ToOwner(i, r) \/ ToSupport(i, r) }
    IN  [ r \in recipients |->
            { certificates[i].id : i \in { j \in 1..Len(certificates) :
                                              ToOwner(j, r) \/ ToSupport(j, r) } } ]

\* process_notifications: one mail per recipient with an '@' in the
\* address.  sendOk = FALSE is SES failing; the exception is caught per
\* recipient and counted.  mailed is the ids of the certificates in the
\* mails sent, raised whether an exception leaves the function.
\* (First the variant that lets the SES exception out.)
process_notifications_raising(expiring_certificates, sendOk) ==
    LET certificates_by_owner == group_certificates_by_owner(expiring_certificates)
        valid == { r \in DOMAIN certificates_by_owner : HasAt(r) }
    IN  [ sent |-> IF sendOk THEN Cardinality(valid) ELSE 0,
          failed |-> 0,
          mailed |-> IF sendOk THEN UNION { certificates_by_owner[r] : r \in valid }
                     ELSE { },
          raised |-> ~sendOk /\ valid # { } ]

process_notifications(expiring_certificates, sendOk) ==
    LET certificates_by_owner == group_certificates_by_owner(expiring_certificates)
        valid == { r \in DOMAIN certificates_by_owner : HasAt(r) }
    IN  [ sent |-> IF sendOk THEN Cardinality(valid) ELSE 0,
          failed |-> IF sendOk THEN 0 ELSE Cardinality(valid),
          mailed |-> IF sendOk THEN UNION { certificates_by_owner[r] : r \in valid }
                     ELSE { },
          raised |-> FALSE ]

\* The ids of the scanned certificates whose status the run is about to
\* change: calculate_new_status gives a status other than the current one.
StatusChanging(certificates) ==
    { certificates[i].id : i \in
        { j \in 1..Len(certificates) :
            /\ ~calculate_new_status_raises(certificates[j].item.ExpiryDate)
            /\ calculate_new_status(certificates[j].item.ExpiryDate,
                                    certificates[j].item.Status)
                 # certificates[j].item.Status } }

IdleMon ==
    [ pc |-> "idle", items |-> << >>, updated |-> 0, failed |-> 0,
      mailed |-> { }, changing |-> { }, sendFailed |-> FALSE ]

\* lambda_handler up to the call of update_certificate_statuses: the scan
\* and the notifications.  An exception that leaves process_notifications
\* ends the run with the 500 response.
MonitorScan(sendOk) ==
    /\ mon.pc = "idle"
    /\ LET expiring_certificates == scan_expiring_certificates
           notification_results == process_notifications(expiring_certificates, sendOk)
       IN  IF notification_results.raised
           THEN /\ mon' = [ IdleMon EXCEPT !.sendFailed = TRUE ]
                /\ UNCHANGED sweeps
           ELSE /\ mon' = [ pc |-> "update", items |-> expiring_certificates,
                            updated |-> 0, failed |-> 0,
                            mailed |-> notification_results.mailed,
                            changing |-> StatusChanging(expiring_certificates),
                            sendFailed |-> notification_results.failed > 0 ]
                /\ sweeps' = [ sweeps EXCEPT
                                 !.second = sweeps.quiet /\ sweeps.day = utc_date(now),
                                 !.scanDay = utc_date(now),
                                 !.clean = TRUE ]
    /\ UNCHANGED << now, table, logs, lastMerge, calc, ext >>

\* log_notification: put_item into the logs table; a failure is swallowed.
LogWritten(ok) == IF ok /\ logs < MaxLogs THEN logs + 1 ELSE logs

\* The item after update_item SET Status, LastUpdatedOn (an upsert).
monitor_update_item(item, new_status) ==
    [ item EXCEPT !.exists = TRUE, !.Status = new_status,
                  !.LastUpdatedOn = now ]

\* One iteration of the loop of update_certificate_statuses.  dbOk is
\* whether update_item succeeds, logOk whether the log put_item does.
MonitorUpdate(dbOk, logOk) ==
    /\ mon.pc = "update"
    /\ mon.items # << >>
    /\ LET cert == Head(mon.items)
           cert_id == cert.id
           expiry_date == cert.item.ExpiryDate
           current_status == cert.item.Status
           new_status == calculate_new_status(expiry_date, current_status)
       IN  IF calculate_new_status_raises(expiry_date)
           THEN /\ mon' = [ mon EXCEPT !.items = Tail(mon.items),
                                       !.failed = mon.failed + 1 ]
                /\ sweeps' = [ sweeps EXCEPT !.clean = FALSE ]
                /\ UNCHANGED << table, logs >>
           ELSE IF new_status # current_status
           THEN IF dbOk
                THEN /\ table' = [ table EXCEPT ![cert_id] =
                                     monitor_update_item(table[cert_id], new_status) ]
                     /\ logs' = LogWritten(logOk)
                     /\ mon' = [ mon EXCEPT !.items = Tail(mon.items),
                                            !.updated = mon.updated + 1 ]
                     /\ UNCHANGED sweeps
                ELSE /\ mon' = [ mon EXCEPT !.items = Tail(mon.items),
                                            !.failed = mon.failed + 1 ]
                     /\ sweeps' = [ sweeps EXCEPT !.clean = FALSE ]
                     /\ UNCHANGED << table, logs >>
           ELSE /\ mon' = [ mon EXCEPT !.items = Tail(mon.items) ]
                /\ UNCHANGED << table, logs, sweeps >>
    /\ UNCHANGED << now, lastMerge, calc, ext >>

\* lambda_handler returns the summary.
MonitorFinish ==
    /\ mon.pc = "update"
    /\ mon.items = << >>
    /\ mon' = IdleMon
    /\ sweeps' = [ sweeps EXCEPT !.day = sweeps.scanDay, !.quiet = sweeps.clean,
                                 !.second = FALSE ]
    /\ UNCHANGED << now, table, logs, lastMerge, calc, ext >>

\* A write to the table by anything but the monitor.
Disturbed == [ sweeps EXCEPT !.quiet = FALSE, !.clean = FALSE ]

----------------------------------------------------------------------------
(* Server scanner (server_certificate_scanner.py) *)

Win(d) == [fmt |-> "win", day |-> d]

\* Names of the instance the certificate is found on (instance['name']).
ServerNames == { "web-01", "web-02" }

\* 'Valid Until' texts the PowerShell script may print.
ValidUntilTexts == { Win(BaseDay - 1), Win(BaseDay + 45), RawDate }

\* parse_windows_certificate_output: the expiry date string.  Text neither
\* format parses is kept as it is.
parse_valid_until(valid_until) ==
    IF valid_until.fmt = "win" THEN Ymd(valid_until.day) ELSE valid_until

\* parse_windows_certificate_output: the certificate dict of one block.
\* The parser sets none of the preserved fields.
parse_windows_certificate(cert_id, valid_until, server_name) ==
    LET expiry_date_str == parse_valid_until(valid_until) IN
    [ CertificateID |-> cert_id,
      CommonName |-> DomainName,
      ServerName |-> server_name,
      ExpiryDate |-> expiry_date_str,
      Status |-> scanner_calculate_certificate_status(expiry_date_str),
      Source |-> "Server-Windows",
      LastScannedOn |-> now,
      AccountNumber |-> AccountId,
      OwnerEmail |-> Absent, SupportEmail |-> Absent, Application |-> Absent,
      Notes |-> Absent, RenewalHistory |-> Absent, CustomTags |-> Absent,
      IncidentNumber |-> Absent ]

\* store_certificate, existing item: the fields of the certificate dict
\* after the loop over PRESERVE_FIELDS (the dict is not written back).
preserve_manual_fields(existing_cert, certificate) ==
    LET Keep(mine, theirs) == IF theirs # Absent /\ mine = Absent THEN theirs ELSE mine
    IN  [ certificate EXCEPT
            !.OwnerEmail = Keep(certificate.OwnerEmail, existing_cert.OwnerEmail),
            !.SupportEmail = Keep(certificate.SupportEmail, existing_cert.SupportEmail),
            !.Application = Keep(certificate.Application, existing_cert.Application),
            !.Notes = Keep(certificate.Notes, existing_cert.Notes),
            !.RenewalHistory = Keep(certificate.RenewalHistory, existing_cert.RenewalHistory),
            !.CustomTags = Keep(certificate.CustomTags, existing_cert.CustomTags),
            !.IncidentNumber = Keep(certificate.IncidentNumber, existing_cert.IncidentNumber) ]

\* put_item(Item=certificate): the stored item is the dict.
item_of_certificate(certificate) ==
    [ NoItem EXCEPT !.exists = TRUE,
        !.ExpiryDate = certificate.ExpiryDate, !.Status = certificate.Status,
        !.CommonName = certificate.CommonName,
        !.AccountNumber = certificate.AccountNumber,
        !.Source = certificate.Source,
        !.ServerName = certificate.ServerName,
        !.LastScannedOn = certificate.LastScannedOn,
        !.OwnerEmail = certificate.OwnerEmail,
        !.SupportEmail = certificate.SupportEmail,
        !.Application = certificate.Application, !.Notes = certificate.Notes,
        !.RenewalHistory = certificate.RenewalHistory,
        !.CustomTags = certificate.CustomTags,
        !.IncidentNumber = certificate.IncidentNumber ]

\* store_certificate: the item under the certificate's key afterwards,
\* given the item get_item returned.  (First the variant that writes the
\* scanned dict over an existing item with put_item.)
store_certificate_put_always(existing_cert, certificate) ==
    item_of_certificate(certificate)

store_certificate(existing_cert, certificate) ==
    IF existing_cert.exists
    THEN LET merged == preserve_manual_fields(existing_cert, certificate) IN
         [ existing_cert EXCEPT
             !.ExpiryDate = merged.ExpiryDate,
             !.Status = merged.Status,
             !.LastScannedOn = merged.LastScannedOn ]
    ELSE item_of_certificate(certificate)

\* One certificate of a scan: parsed from the command output and stored.
\* dbOk = FALSE is a DynamoDB error, which store_certificate reports as
\* 'skipped'.
ServerScanCertificate(cert_id, valid_until, server_name, dbOk) ==
    LET certificate == parse_windows_certificate(cert_id, valid_until, server_name)
        existing_cert == table[cert_id]
    IN  /\ IF dbOk
           THEN /\ table' = [ table EXCEPT ![cert_id] =
                                store_certificate(existing_cert, certificate) ]
                /\ sweeps' = Disturbed
                /\ lastMerge' =
                     IF existing_cert.exists
                     THEN [ src |-> "scan", id |-> cert_id, flip |-> ~lastMerge.flip,
                            at |-> now, obs |-> certificate,
                            after |-> table'[cert_id] ]
                     ELSE lastMerge
           ELSE UNCHANGED << table, sweeps, lastMerge >>
        /\ UNCHANGED << now, logs, mon, calc, ext >>

----------------------------------------------------------------------------
(* ACM sync (acm_certificate_sync.py) *)

REGION == "eu-west-1"

\* NotAfter of an ACM certificate: a datetime of day `day`, or None.
NotAfterOn(d) == [fmt |-> "datetime", day |-> d]

\* Certificates list_acm_certificates may return for the account, by
\* domain name.
AcmCertsOf(domain_name) ==
    { [ ARN |-> "arn:aws:acm:1", DomainName |-> domain_name, Status |-> st,
        Type |-> "AMAZON_ISSUED", KeyAlgorithm |-> "RSA_2048", NotAfter |-> na ] :
        st \in { "ISSUED" },
        na \in { NotAfterOn(BaseDay - 1), NotAfterOn(BaseDay + 45), NoDate } }

AcmCerts ==
    AcmCertsOf(DomainName)
      \cup { a \in AcmCertsOf("other.example.com") : a.NotAfter = NotAfterOn(BaseDay + 45) }

\* acm_cert['NotAfter'].strftime('%Y-%m-%d') if acm_cert.get('NotAfter') else None
acm_expiry_date(acm_cert) ==
    IF acm_cert.NotAfter.fmt = "datetime" THEN Ymd(acm_cert.NotAfter.day) ELSE NoDate

\* find_existing_certificate: the id of the item found, or Absent for None.
\* The query on the index returns a matching item when it works (gsiOk);
\* when it raises, the scan with Limit=1 evaluates one item, the first of
\* the table, and returns it if it passes the filter.  scanOk = FALSE is the
\* scan raising too.
find_existing_certificate(domain_name, account_id, gsiOk, scanOk) ==
    LET Exists(c) == table[c].exists
        Matches(c) ==
            /\ table[c].exists
            /\ table[c].AccountNumber = account_id
            /\ table[c].CommonName = domain_name
        matching == SelectSeq(ScanOrder, Matches)
        evaluated == SelectSeq(ScanOrder, Exists)
    IN  IF gsiOk
        THEN IF matching # << >> THEN Head(matching) ELSE Absent
        ELSE IF scanOk /\ evaluated # << >> /\ Matches(Head(evaluated))
             THEN Head(evaluated)
             ELSE Absent

\* update_existing_certificate: the item after update_item SET of every
\* ACM field whose value is not None and differs from the existing one.
\* (First the variant that leaves the stored ExpiryDate alone.)
update_existing_certificate_keep_expiry(existing_cert, acm_cert, account_id, region) ==
    [ existing_cert EXCEPT
        !.ACM_ARN = acm_cert.ARN,
        !.ACM_Status = acm_cert.Status,
        !.Region = region,
        !.LastSyncedFromACM = now,
        !.ACM_Type = acm_cert.Type,
        !.ACM_KeyAlgorithm = acm_cert.KeyAlgorithm,
        !.Source = IF @ = Absent THEN "ACM" ELSE @ ]

\* (And the variant that also derives the Status from the ACM expiry.)
update_existing_certificate_with_status(existing_cert, acm_cert, account_id, region) ==
    [ existing_cert EXCEPT
        !.ACM_ARN = acm_cert.ARN,
        !.ACM_Status = acm_cert.Status,
        !.ExpiryDate = IF acm_expiry_date(acm_cert) # NoDate
                       THEN acm_expiry_date(acm_cert) ELSE @,
        !.Status = IF acm_cert.NotAfter.fmt = "datetime"
                   THEN status_from_days(acm_cert.NotAfter.day - utc_date(now))
                   ELSE @,
        !.Region = region,
        !.LastSyncedFromACM = now,
        !.ACM_Type = acm_cert.Type,
        !.ACM_KeyAlgorithm = acm_cert.KeyAlgorithm,
        !.Source = IF @ = Absent THEN "ACM" ELSE @ ]

update_existing_certificate(existing_cert, acm_cert, account_id, region) ==
    [ existing_cert EXCEPT
        !.ACM_ARN = acm_cert.ARN,
        !.ACM_Status = acm_cert.Status,
        !.ExpiryDate = IF acm_expiry_date(acm_cert) # NoDate
                       THEN acm_expiry_date(acm_cert) ELSE @,
        !.Region = region,
        !.LastSyncedFromACM = now,
        !.ACM_Type = acm_cert.Type,
        !.ACM_KeyAlgorithm = acm_cert.KeyAlgorithm,
        !.Source = IF @ = Absent THEN "ACM" ELSE @ ]

\* add_new_certificate: the item put under the new id.  The status comes
\* from the difference of the dates (expiry_date.date() - now.date()).
add_new_certificate(acm_cert, account_id, region) ==
    LET has_expiry == acm_cert.NotAfter.fmt = "datetime"
        days_until_expiry == acm_cert.NotAfter.day - utc_date(now)
    IN  [ NoItem EXCEPT
            !.exists = TRUE,
            !.CommonName = acm_cert.DomainName,
            !.AccountNumber = account_id,
            !.Region = region,
            !.Application = "Unknown",
            !.Status = IF has_expiry THEN status_from_days(days_until_expiry)
                       ELSE "Unknown",
            !.Source = "ACM",
            !.ACM_ARN = acm_cert.ARN,
            !.ACM_Status = acm_cert.Status,
            !.ACM_Type = acm_cert.Type,
            !.ACM_KeyAlgorithm = acm_cert.KeyAlgorithm,
            !.ExpiryDate = acm_expiry_date(acm_cert),
            !.LastUpdatedOn = now,
            !.LastSyncedFromACM = now ]

\* The statistics lambda_handler returns for a run that found one
\* certificate: the result of process_certificate is counted, and nothing
\* is ever appended to 'errors' for a certificate.  raised records whether
\* the processing of the certificate hit an error.
AcmStats(result, raised) ==
    [ found |-> 1,
      added |-> IF result = "added" THEN 1 ELSE 0,
      updated |-> IF result = "updated" THEN 1 ELSE 0,
      skipped |-> IF result = "skipped" THEN 1 ELSE 0,
      errors |-> 0,
      raised |-> raised ]

NoAcm ==
    [ found |-> 0, added |-> 0, updated |-> 0, skipped |-> 0, errors |-> 0,
      raised |-> FALSE ]

\* One run of the ACM sync in which list_acm_certificates returns acm_cert:
\* process_certificate finds the existing item and updates it, or adds a
\* new one.  dbOk = FALSE is update_item or put_item failing ('skipped').
AcmSync(acm_cert, gsiOk, scanOk, dbOk) ==
    LET found == find_existing_certificate(acm_cert.DomainName, AccountId,
                                           gsiOk, scanOk)
    IN  /\ IF found # Absent
           THEN LET existing_cert == table[found]
                    updated == update_existing_certificate(existing_cert, acm_cert,
                                                           AccountId, REGION)
                    needs_update == updated # existing_cert
                IN  IF needs_update /\ dbOk
                    THEN /\ table' = [ table EXCEPT ![found] = updated ]
                         /\ sweeps' = Disturbed
                         /\ lastMerge' = [ src |-> "acm", id |-> found,
                                           flip |-> ~lastMerge.flip,
                                           at |-> now, obs |-> acm_cert,
                                           after |-> updated ]
                         /\ acm' = AcmStats("updated", FALSE)
                    ELSE /\ UNCHANGED << table, sweeps >>
                         /\ lastMerge' =
                              IF needs_update THEN lastMerge
                              ELSE [ src |-> "acm", id |-> found,
                                     flip |-> ~lastMerge.flip,
                                     at |-> now, obs |-> acm_cert,
                                     after |-> existing_cert ]
                         /\ acm' = AcmStats("skipped", needs_update)
           ELSE LET free == SelectSeq(ScanOrder,
                                      LAMBDA c : c \in AcmIDs /\ ~table[c].exists)
                IN  /\ free # << >>
                    /\ IF dbOk
                       THEN /\ table' = [ table EXCEPT ![Head(free)] =
                                            add_new_certificate(acm_cert, AccountId, REGION) ]
                            /\ sweeps' = Disturbed
                            /\ acm' = AcmStats("added", FALSE)
                       ELSE /\ UNCHANGED << table, sweeps >>
                            /\ acm' = AcmStats("skipped", TRUE)
                    /\ UNCHANGED lastMerge
        /\ UNCHANGED << now, logs, mon, calc, snow, tix, api >>

----------------------------------------------------------------------------
(* Ticket creator (servicenow_ticket_creator.py) *)

\* scan_expiring_certificates of the ticket creator: the items whose
\* ExpiryDate is truthy and between today and today + EXPIRY_THRESHOLD_DAYS.
ticket_scan_expiring_certificates ==
    LET threshold_date == utc_date(now) + EXPIRY_THRESHOLD_DAYS
        current_date == utc_date(now)
        Expiring(id) ==
            /\ table[id].exists
            /\ table[id].ExpiryDate.fmt # "none"
            /\ is_certificate_expiring(table[id].ExpiryDate, current_date,
                                       threshold_date)
        ids == SelectSeq(ScanOrder, Expiring)
    IN  [ i \in 1..Len(ids) |-> [ id |-> ids[i], item |-> table[ids[i]] ] ]

\* filter_certificates_needing_tickets.  (First the variant that looks at
\* the status only.)
filter_certificates_needing_tickets_by_status(certificates) ==
    LET Needs(cert) == cert.item.Status \notin { "Renewal Done", "Renewed" }
    IN  SelectSeq(certificates, Needs)

filter_certificates_needing_tickets(certificates) ==
    LET Needs(cert) ==
            /\ strip(get(cert.item.IncidentNumber, "")) = ""
            /\ cert.item.Status \notin { "Renewal Done", "Renewed" }
    IN  SelectSeq(certificates, Needs)

NoSnow == [ c \in CertIDs |-> 0 ]

\* The run of the ticket creator: its position, the certificates still to
\* process, the results of process_ticket_creation, the number n of
\* certificates it was called with, the number of IncidentNumber writes of
\* the run, and DRY_RUN.
IdleTix ==
    [ pc |-> "idle", items |-> << >>, created |-> 0, failed |-> 0,
      skipped |-> 0, errors |-> 0, n |-> 0, written |-> 0, dry |-> FALSE ]

\* lambda_handler up to the loop of process_ticket_creation: scan, filter,
\* and the ServiceNow credentials.  credOk = FALSE is Secrets Manager
\* failing: every certificate counts as failed, with one error entry.
\* dryRun is the DRY_RUN of the environment of the run.
TicketScan(credOk, dryRun) ==
    /\ tix.pc = "idle"
    /\ LET certs_needing_tickets ==
               filter_certificates_needing_tickets(ticket_scan_expiring_certificates)
           started == [ IdleTix EXCEPT !.pc = "create", !.dry = dryRun,
                                       !.n = Len(certs_needing_tickets) ]
       IN  tix' = IF credOk \/ certs_needing_tickets = << >>
                  THEN [ started EXCEPT !.items = certs_needing_tickets ]
                  ELSE [ started EXCEPT !.failed = Len(certs_needing_tickets),
                                        !.errors = 1 ]
    /\ UNCHANGED << now, table, logs, mon, lastMerge, sweeps, calc, snow, api, acm >>

\* update_certificate_incident_number: update_item (an upsert) SET
\* IncidentNumber, LastUpdatedOn.
update_certificate_incident_number(item, incident_number) ==
    [ item EXCEPT !.exists = TRUE, !.IncidentNumber = incident_number,
                  !.LastUpdatedOn = now ]

\* The results after one iteration of the loop of process_ticket_creation
\* that ended with the outcome: "skipped" (DRY_RUN), "created" (the end of
\* the try block), "ticket_failed" or "writeback_failed" (the except).
\* (First the variant that counts 'created' as soon as ServiceNow has
\* created the incident.)
count_ticket_result_at_creation(results, outcome) ==
    CASE outcome = "skipped" -> [ results EXCEPT !.skipped = @ + 1 ]
      [] outcome = "created" -> [ results EXCEPT !.created = @ + 1 ]
      [] outcome = "writeback_failed" ->
            [ results EXCEPT !.created = @ + 1, !.failed = @ + 1, !.errors = @ + 1 ]
      [] OTHER -> [ results EXCEPT !.failed = @ + 1, !.errors = @ + 1 ]

count_ticket_result(results, outcome) ==
    CASE outcome = "skipped" -> [ results EXCEPT !.skipped = @ + 1 ]
      [] outcome = "created" -> [ results EXCEPT !.created = @ + 1 ]
      [] OTHER -> [ results EXCEPT !.failed = @ + 1, !.errors = @ + 1 ]

\* One iteration of the loop of process_ticket_creation: with DRY_RUN the
\* certificate is skipped; otherwise create_servicenow_ticket,
\* update_certificate_incident_number, log_ticket_creation.  snowOk is
\* whether ServiceNow creates the incident and returns its number, dbOk
\* whether update_item succeeds, logOk whether the log put_item does (its
\* failure is swallowed).
TicketCreate(snowOk, dbOk, logOk) ==
    /\ tix.pc = "create"
    /\ tix.items # << >>
    /\ LET cert == Head(tix.items)
           cert_id == cert.id
           rest == [ tix EXCEPT !.items = Tail(tix.items) ]
       IN  IF tix.dry
           THEN /\ tix' = count_ticket_result(rest, "skipped")
                /\ UNCHANGED << table, logs, snow >>
           ELSE /\ snowOk => snow[cert_id] < MaxTickets
                /\ IF snowOk
                   THEN /\ snow' = [ snow EXCEPT ![cert_id] = @ + 1 ]
                        /\ IF dbOk
                           THEN /\ table' = [ table EXCEPT ![cert_id] =
                                                update_certificate_incident_number(@, "INC002") ]
                                /\ logs' = LogWritten(logOk)
                                /\ tix' = count_ticket_result(
                                            [ rest EXCEPT !.written = @ + 1 ], "created")
                           ELSE /\ tix' = count_ticket_result(rest, "writeback_failed")
                                /\ UNCHANGED << table, logs >>
                   ELSE /\ tix' = count_ticket_result(rest, "ticket_failed")
                        /\ UNCHANGED << table, logs, snow >>
    /\ UNCHANGED << now, mon, lastMerge, sweeps, calc, api, acm >>

\* lambda_handler returns the summary.
TicketFinish ==
    /\ tix.pc = "create"
    /\ tix.items = << >>
    /\ tix' = IdleTix
    /\ UNCHANGED << now, table, logs, mon, lastMerge, sweeps, calc, snow, api, acm >>

----------------------------------------------------------------------------
(* API and webhook handlers: servicenow_webhook_handler.py, the API Lambda
   lambda_function.py and dashboard_api.py.  Each serves one request. *)

\* The outcome of a request: the handler, the certificate id of the
\* request, the HTTP status code returned, whether an item was stored under
\* the id when the request arrived, the incident state (webhook), the
\* Status read before and the Status of the request, whether the handler
\* called the email notification, and whether SES accepted the email.
\* flip changes with every request served.
ApiResult(op, id, code, existed, state, old, new, notify, sent, flip) ==
    [ op |-> op, id |-> id, code |-> code, existed |-> existed,
      state |-> state, old |-> old, new |-> new, notify |-> notify,
      sent |-> sent, flip |-> flip ]

\* STATUS_MAPPING of the webhook handler, keyed by the incident state.
STATUS_MAPPING ==
    [ state \in { "1", "2", "3", "6", "7", "8" } |->
        CASE state = "1" -> "Pending Assignment"
          [] state = "2" -> "Renewal in Progress"
          [] state = "3" -> "On Hold"
          [] state = "6" -> "Renewal Done"
          [] state = "7" -> "Renewal Done"
          [] state = "8" -> "Renewal Canceled" ]

\* STATUS_MAPPING.get(state, 'Unknown').  (First the variant whose default
\* is the status of a new incident.)
status_mapping_get_default_new(state) ==
    IF state \in DOMAIN STATUS_MAPPING THEN STATUS_MAPPING[state]
    ELSE "Pending Assignment"

status_mapping_get(state) ==
    IF state \in DOMAIN STATUS_MAPPING THEN STATUS_MAPPING[state]
    ELSE "Unknown"

\* Incident states a webhook payload may carry; Absent is a payload
\* without 'state', "4" a state the handler has no entry for.
WebhookStates == { "1", "2", "3", "6", "7", "8", "4", Absent }

\* Certificate ids a request may carry; Absent is a request without one.
RequestIDs == { "cert-1", Absent }

\* update_certificate_assignment: the item after update_item (an upsert)
\* SET LastUpdatedOn, Status, IncidentNumber.
update_certificate_assignment(item, incident_number, state) ==
    [ item EXCEPT !.exists = TRUE,
                  !.LastUpdatedOn = now,
                  !.Status = status_mapping_get(state),
                  !.IncidentNumber = incident_number ]

\* The secret stored under WEBHOOK_SECRET_NAME, and another one.
WebhookSecret == "s3cret"
Secrets == { WebhookSecret, "other" }

\* The text of a request body: the same payload serialised compactly with
\* sorted keys, or with blanks.
BodyTexts == { "compact", "spaced" }

\* json.dumps(json.loads(text), separators=(',', ':'), sort_keys=True)
json_dumps_canonical(body_text) == "compact"

\* hmac.new(secret, text, sha256).hexdigest(): one digest per secret and text.
hmac_sha256(secret, text) == "hmac:" \o secret \o ":" \o text

\* The X-ServiceNow-Signature header a request may carry.
Signatures ==
    { Absent } \cup { hmac_sha256(k, t) : k \in Secrets, t \in BodyTexts }

\* validate_webhook_signature.  signature = Absent is a request without
\* the header; secret is what get_webhook_secret returns, Absent for None
\* (the secret is missing or Secrets Manager fails).
\* (First the variant that accepts every request.)
validate_webhook_signature_open(signature, body_text, secret) == TRUE

validate_webhook_signature(signature, body_text, secret) ==
    IF signature = Absent THEN TRUE
    ELSE IF secret = Absent THEN TRUE
    ELSE signature = hmac_sha256(secret, json_dumps_canonical(body_text))

\* servicenow_webhook_handler.lambda_handler.  dbOk = FALSE is a DynamoDB
\* error in update_item.
WebhookRequest(signature, body_text, secret, correlation_id, incident_number, state, dbOk) ==
    /\ IF ~validate_webhook_signature(signature, body_text, secret)
       THEN /\ api' = ApiResult("webhook", correlation_id, 401, FALSE, state,
                                "", Absent, FALSE, FALSE, ~api.flip)
            /\ UNCHANGED table
       ELSE IF correlation_id = Absent \/ incident_number = Absent
       THEN /\ api' = ApiResult("webhook", correlation_id, 400, FALSE, state,
                                "", Absent, FALSE, FALSE, ~api.flip)
            /\ UNCHANGED table
       ELSE IF dbOk
       THEN /\ table' = [ table EXCEPT ![correlation_id] =
                            update_certificate_assignment(@, incident_number, state) ]
            /\ api' = ApiResult("webhook", correlation_id, 200,
                                table[correlation_id].exists, state,
                                table[correlation_id].Status,
                                status_mapping_get(state), FALSE, FALSE, ~api.flip)
       ELSE /\ api' = ApiResult("webhook", correlation_id, 500,
                                table[correlation_id].exists, state,
                                table[correlation_id].Status, Absent,
                                FALSE, FALSE, ~api.flip)
            /\ UNCHANGED table
    /\ UNCHANGED << now, logs, mon, lastMerge, sweeps, calc, snow, tix, acm >>

\* The handler on a request without a signature header.
Webhook(correlation_id, incident_number, state, dbOk) ==
    WebhookRequest(Absent, "compact", Absent, correlation_id, incident_number,
                   state, dbOk)

\* send_status_change_notification: the recipients, read from the item
\* the PUT handler fetched before its update.
put_recipients(certificate) ==
    { v \in { certificate.Owner, certificate.SupportEmail } : HasAt(v) }

\* lambda_function.lambda_handler, PUT: get_item, update_item (an upsert)
\* of the fields of the body, then the notification when the Status of
\* the body differs from the Status read.  new_status = Absent is a body
\* without 'Status'.  dbOk = FALSE is a DynamoDB error, sendOk = FALSE
\* an SES error, which send_status_change_notification swallows.
ApiPut(cert_id, new_status, dbOk, sendOk) ==
    /\ IF cert_id = Absent
       THEN /\ api' = ApiResult("put", cert_id, 400, FALSE, Absent, "",
                                new_status, FALSE, FALSE, ~api.flip)
            /\ UNCHANGED table
       ELSE LET current_cert == table[cert_id]
                old_status == current_cert.Status
                changed == new_status \notin { Absent, "" }
                             /\ new_status # old_status
                notify == changed /\ put_recipients(current_cert) # {}
            IN  IF dbOk
                THEN /\ table' = [ table EXCEPT ![cert_id] =
                                     [ @ EXCEPT !.exists = TRUE,
                                         !.Status = IF new_status = Absent
                                                    THEN @ ELSE new_status ] ]
                     /\ api' = ApiResult("put", cert_id, 200, current_cert.exists,
                                         Absent, old_status, new_status, notify,
                                         notify /\ sendOk, ~api.flip)
                ELSE /\ api' = ApiResult("put", cert_id, 500, current_cert.exists,
                                         Absent, old_status, new_status, FALSE,
                                         FALSE, ~api.flip)
                     /\ UNCHANGED table
    /\ UNCHANGED << now, logs, mon, lastMerge, sweeps, calc, snow, tix, acm >>

\* dashboard_api.handle_update_certificate: the Status is recalculated when
\* the body has an ExpiryDate; every non-empty field of the body is SET by
\* update_item (an upsert); then the log put_item, whose failure makes the
\* response a 500.  expiry_date = NoDate and status = Absent are a body
\* without the field.
\* (The Status of the body after 'if body.get('ExpiryDate'): body['Status']
\* = calculate_status(...)'; first the variant that keeps a Status the
\* request supplies.)
dashboard_body_status_keep_supplied(expiry_date, status) ==
    IF status \notin { Absent, "" } THEN status
    ELSE IF expiry_date # NoDate THEN dashboard_calculate_status(expiry_date)
    ELSE status

dashboard_body_status(expiry_date, status) ==
    IF expiry_date # NoDate THEN dashboard_calculate_status(expiry_date)
    ELSE status

DashboardPut(cert_id, expiry_date, status, dbOk, logOk) ==
    /\ IF cert_id = Absent
       THEN /\ api' = ApiResult("dashboard-put", cert_id, 400, FALSE, Absent,
                                "", status, FALSE, FALSE, ~api.flip)
            /\ UNCHANGED << table, logs >>
       ELSE LET body_status == dashboard_body_status(expiry_date, status)
            IN  IF dbOk
                THEN /\ table' = [ table EXCEPT ![cert_id] =
                                     [ @ EXCEPT !.exists = TRUE,
                                         !.ExpiryDate = IF expiry_date = NoDate
                                                        THEN @ ELSE expiry_date,
                                         !.Status = IF body_status \in { Absent, "" }
                                                    THEN @ ELSE body_status,
                                         !.LastUpdatedOn = now ] ]
                     /\ logs' = LogWritten(logOk)
                     /\ api' = ApiResult("dashboard-put", cert_id,
                                         IF logOk THEN 200 ELSE 500,
                                         table[cert_id].exists, Absent,
                                         table[cert_id].Status, body_status,
                                         FALSE, FALSE, ~api.flip)
                ELSE /\ api' = ApiResult("dashboard-put", cert_id, 500,
                                         table[cert_id].exists, Absent,
                                         table[cert_id].Status, body_status,
                                         FALSE, FALSE, ~api.flip)
                     /\ UNCHANGED << table, logs >>
    /\ UNCHANGED << now, mon, lastMerge, sweeps, calc, snow, tix, acm >>

----------------------------------------------------------------------------
(* Calls of the status calculators, recorded with their outcome *)

NoCalc ==
    [ fn |-> "none", expiry |-> NoDate, status |-> "", at |-> 0,
      days |-> {}, result |-> "", raised |-> FALSE, changed |-> FALSE ]

Called(fn, expiry_date, current_status, days, result, raised) ==
    /\ calc' = [ fn |-> fn, expiry |-> expiry_date, status |-> current_status,
                 at |-> now, days |-> days, result |-> result,
                 raised |-> raised,
                 \* update_certificate_statuses: new_status != current_status
                 changed |-> ~raised /\ result # current_status ]
    /\ UNCHANGED << now, table, logs, mon, lastMerge, sweeps, ext >>

CallCalculateNewStatus(e, s) ==
    Called("calculate_new_status", e, s,
           IF strptime_ok(e) THEN { monitor_days_until_expiry(e) } ELSE {},
           IF calculate_new_status_raises(e) THEN "" ELSE calculate_new_status(e, s),
           calculate_new_status_raises(e))

CallDetermineCertificateStatus(e, s) ==
    Called("determine_certificate_status", e, s,
           { helpers_calculate_days_until_expiry(e) },
           determine_certificate_status(e, s), FALSE)

CallExcelCalculateCertificateStatus(e) ==
    Called("excel_calculate_certificate_status", e, "",
           IF strptime_ok(e) THEN { timedelta_days(strptime(e) - now) } ELSE {},
           excel_calculate_certificate_status(e), FALSE)

CallScannerCalculateCertificateStatus(e) ==
    Called("scanner_calculate_certificate_status", e, "",
           IF strptime_ok(e) THEN { timedelta_days(strptime(e) - now) } ELSE {},
           scanner_calculate_certificate_status(e), FALSE)

CallDashboardCalculateStatus(e) ==
    Called("dashboard_calculate_status", e, "",
           IF strptime_ok(e) THEN { timedelta_days(strptime(e) - now) } ELSE {},
           dashboard_calculate_status(e), FALSE)

CallTicketCalculateDaysUntilExpiry(e) ==
    Called("ticket_calculate_days_until_expiry", e, "",
           { ticket_calculate_days_until_expiry(e) }, "", FALSE)

CallCalculatePriority(d) ==
    Called("calculate_priority", NoDate, "", { d }, calculate_priority(d), FALSE)

----------------------------------------------------------------------------
(* The clock *)

Tick ==
    /\ now < LastTick
    /\ now' = now + 1
    /\ UNCHANGED << table, logs, mon, lastMerge, sweeps, calc, ext >>

----------------------------------------------------------------------------
(* Specifications *)

NoMerge ==
    [ src |-> "none", id |-> "", flip |-> FALSE, at |-> 0, obs |-> NoItem,
      after |-> NoItem ]

\* A table with these items under cert-1 and cert-2 and nothing else.
TableOf(first, second) ==
    [ c \in CertIDs |->
        IF c = "cert-1" THEN first ELSE IF c = "cert-2" THEN second ELSE NoItem ]

NoSweeps ==
    [ day |-> 0, quiet |-> FALSE, scanDay |-> 0, clean |-> FALSE,
      second |-> FALSE ]

NoApi == ApiResult("none", Absent, 0, FALSE, Absent, "", Absent, FALSE, FALSE, FALSE)


\* The system: the table holds curated items, the Lambdas are idle.
Init ==
    /\ now \in FirstTick .. (FirstTick + TicksPerDay - 1)
    /\ table \in { TableOf(first, second) :
                      first \in SeedItems \cup { NoItem },
                      second \in { NoItem, SecondItem } }
    /\ logs = 0
    /\ mon = IdleMon
    /\ lastMerge = NoMerge
    /\ sweeps = NoSweeps
    /\ calc = NoCalc
    /\ snow = NoSnow
    /\ tix = IdleTix
    /\ api = NoApi
    /\ acm = NoAcm

NextSweep ==
    \/ Tick
    \/ MonitorScan(TRUE)
    \/ \E dbOk \in BOOLEAN, logOk \in BOOLEAN : MonitorUpdate(dbOk, logOk)
    \/ MonitorFinish

NextSync ==
    \/ Tick
    \/ \E c \in ScannedIDs, v \in ValidUntilTexts, dbOk \in BOOLEAN :
          ServerScanCertificate(c, v, "web-01", dbOk)
    \/ \E a \in AcmCertsOf(DomainName), dbOk \in BOOLEAN :
          AcmSync(a, TRUE, TRUE, dbOk)

Next ==
    \/ Tick
    \/ MonitorScan(TRUE)
    \/ \E dbOk \in BOOLEAN, logOk \in BOOLEAN : MonitorUpdate(dbOk, logOk)
    \/ MonitorFinish
    \/ \E c \in ScannedIDs, v \in ValidUntilTexts, dbOk \in BOOLEAN :
          ServerScanCertificate(c, v, "web-01", dbOk)

\* The passes that write the Status of a stored record, the monitor sweep
\* and the server scan, interleaved.
Spec == Init /\ [][Next]_vars

\* The monitor sweep alone.
SpecSweep == Init /\ [][NextSweep]_vars

\* The server scan and the ACM sync alone.
SpecSync == Init /\ [][NextSync]_vars

\* The status calculators alone, on every date string and prior status.
InitCalc ==
    /\ now \in FirstTick .. LastTick
    /\ table = [ c \in CertIDs |-> NoItem ]
    /\ logs = 0
    /\ mon = IdleMon
    /\ lastMerge = NoMerge
    /\ sweeps = NoSweeps
    /\ calc = NoCalc
    /\ snow = NoSnow
    /\ tix = IdleTix
    /\ api = NoApi
    /\ acm = NoAcm

NextCalc ==
    \/ Tick
    \/ \E e \in DateStrs, s \in Statuses : CallCalculateNewStatus(e, s)
    \/ \E e \in DateStrs, s \in Statuses : CallDetermineCertificateStatus(e, s)
    \/ \E e \in DateStrs : CallExcelCalculateCertificateStatus(e)
    \/ \E e \in DateStrs : CallScannerCalculateCertificateStatus(e)
    \/ \E e \in DateStrs : CallDashboardCalculateStatus(e)
    \/ \E e \in DateStrs : CallTicketCalculateDaysUntilExpiry(e)
    \/ \E d \in PriorityDays : CallCalculatePriority(d)

SpecCalc == InitCalc /\ [][NextCalc]_vars

\* The server scanner and the ACM sync over a small table at one instant,
\* with every outcome of the lookup of the existing record.
AcmItems ==
    { NoItem,
      SeedItem(Ymd(BaseDay), "Active",
               [ OwnerEmail |-> "a@x.com", SupportEmail |-> "s@x.com",
                 Application |-> "Billing", Notes |-> "n", RenewalHistory |-> "h",
                 CustomTags |-> "t", IncidentNumber |-> "" ]) }

InitAcm ==
    /\ now = FirstTick
    /\ table \in { TableOf(first, second) :
                      first \in AcmItems, second \in { NoItem, SecondItem } }
    /\ logs = 0
    /\ mon = IdleMon
    /\ lastMerge = NoMerge
    /\ sweeps = NoSweeps
    /\ calc = NoCalc
    /\ snow = NoSnow
    /\ tix = IdleTix
    /\ api = NoApi
    /\ acm = NoAcm

NextAcm ==
    \/ \E c \in ScannedIDs, n \in ServerNames, dbOk \in BOOLEAN :
          ServerScanCertificate(c, Win(BaseDay + 45), n, dbOk)
    \/ \E a \in AcmCerts, gsiOk \in BOOLEAN, scanOk \in BOOLEAN,
          dbOk \in BOOLEAN : AcmSync(a, gsiOk, scanOk, dbOk)

SpecAcm == InitAcm /\ [][NextAcm]_vars

\* The ticket creator alone.  The first item has any IncidentNumber, with
\* or without blanks around it.
TicketItems ==
    { [ SecondItem EXCEPT !.CommonName = DomainName, !.Status = st,
                          !.IncidentNumber = inc ] :
        st \in { "Active", "Renewal in Progress", "Renewal Done" },
        inc \in { Absent, "", "   ", "INC001", " INC001 " } }

InitTicket ==
    /\ now \in FirstTick .. (FirstTick + TicksPerDay - 1)
    /\ table \in { TableOf(first, second) :
                      first \in TicketItems, second \in { NoItem, SecondItem } }
    /\ logs = 0
    /\ mon = IdleMon
    /\ lastMerge = NoMerge
    /\ sweeps = NoSweeps
    /\ calc = NoCalc
    /\ snow = NoSnow
    /\ tix = IdleTix
    /\ api = NoApi
    /\ acm = NoAcm

NextTicket ==
    \/ Tick
    \/ \E credOk \in BOOLEAN, dryRun \in BOOLEAN : TicketScan(credOk, dryRun)
    \/ \E snowOk \in BOOLEAN, dbOk \in BOOLEAN, logOk \in BOOLEAN :
          TicketCreate(snowOk, dbOk, logOk)
    \/ TicketFinish

SpecTicket == InitTicket /\ [][NextTicket]_vars

\* The update requests of the webhook and of the two APIs.
PutStatuses == { Absent, "Active", "Renewal in Progress" }

\* The ExpiryDate and the Status a dashboard PUT may carry.
PutExpiryDates == { NoDate, Ymd(BaseDay + 45), RawDate }
DashboardStatuses == { Absent, "Renewal Done" }

\* Items the table may hold when the requests arrive.
ApiItems ==
    { NoItem,
      [ SeedItem(Ymd(BaseDay), "Active",
                 [ OwnerEmail |-> "a@x.com", SupportEmail |-> "s@x.com",
                   Application |-> "Billing", Notes |-> "n",
                   RenewalHistory |-> "h", CustomTags |-> "t",
                   IncidentNumber |-> "INC001" ])
          EXCEPT !.Owner = "a@x.com" ],
      SeedItem(Ymd(BaseDay + EXPIRY_THRESHOLD + 1), "Renewal in Progress",
               [ OwnerEmail |-> "a@x.com", SupportEmail |-> "",
                 Application |-> "Unknown", Notes |-> Absent,
                 RenewalHistory |-> Absent, CustomTags |-> "",
                 IncidentNumber |-> "" ]) }

InitApi ==
    /\ now \in FirstTick .. (FirstTick + TicksPerDay - 1)
    /\ table \in { TableOf(first, NoItem) : first \in ApiItems }
    /\ logs = 0
    /\ mon = IdleMon
    /\ lastMerge = NoMerge
    /\ sweeps = NoSweeps
    /\ calc = NoCalc
    /\ snow = NoSnow
    /\ tix = IdleTix
    /\ api = NoApi
    /\ acm = NoAcm

NextApi ==
    \/ \E c \in RequestIDs, i \in { "INC002", Absent }, st \in WebhookStates,
          dbOk \in BOOLEAN : Webhook(c, i, st, dbOk)
    \/ \E c \in RequestIDs, s \in PutStatuses, dbOk \in BOOLEAN,
          sendOk \in BOOLEAN : ApiPut(c, s, dbOk, sendOk)
    \/ \E c \in RequestIDs, e \in PutExpiryDates, s \in DashboardStatuses,
          dbOk \in BOOLEAN, logOk \in BOOLEAN :
          DashboardPut(c, e, s, dbOk, logOk)

SpecApi == InitApi /\ [][NextApi]_vars

\* The monitor run with its notifications, and the PUT of the API.  The
\* first item expires tomorrow; it has any of the contacts and a status the
\* monitor changes or keeps.
NotifyContacts ==
    { [ OwnerEmail |-> "a@x.com", SupportEmail |-> "s@x.com", Owner |-> "a@x.com" ],
      [ OwnerEmail |-> "a@x.com", SupportEmail |-> "", Owner |-> Absent ],
      [ OwnerEmail |-> Absent, SupportEmail |-> "s@x.com", Owner |-> Absent ],
      [ OwnerEmail |-> "   ", SupportEmail |-> Absent, Owner |-> Absent ] }

NotifyItems ==
    { [ NoItem EXCEPT !.exists = TRUE, !.ExpiryDate = Ymd(BaseDay + 1),
          !.Status = st, !.OwnerEmail = k.OwnerEmail,
          !.SupportEmail = k.SupportEmail, !.Owner = k.Owner,
          !.CommonName = DomainName, !.AccountNumber = AccountId ] :
        st \in { "Active", "Due for Renewal" }, k \in NotifyContacts }

InitNotify ==
    /\ now = FirstTick
    /\ table \in { TableOf(first, second) :
                      first \in NotifyItems, second \in { NoItem, SecondItem } }
    /\ logs = 0
    /\ mon = IdleMon
    /\ lastMerge = NoMerge
    /\ sweeps = NoSweeps
    /\ calc = NoCalc
    /\ snow = NoSnow
    /\ tix = IdleTix
    /\ api = NoApi
    /\ acm = NoAcm

NextNotify ==
    \/ \E sendOk \in BOOLEAN : MonitorScan(sendOk)
    \/ \E dbOk \in BOOLEAN, logOk \in BOOLEAN : MonitorUpdate(dbOk, logOk)
    \/ MonitorFinish
    \/ \E new_status \in PutStatuses, dbOk \in BOOLEAN, sendOk \in BOOLEAN :
          ApiPut("cert-1", new_status, dbOk, sendOk)

SpecNotify == InitNotify /\ [][NextNotify]_vars

\* The monitor sweep over records at the edges of its window: the first
\* item expires yesterday, today, on the last day of the window or the day
\* after, in any status.
WindowItems ==
    { [ NoItem EXCEPT !.exists = TRUE, !.ExpiryDate = Ymd(BaseDay + d),
          !.Status = st, !.OwnerEmail = "a@x.com",
          !.CommonName = DomainName, !.AccountNumber = AccountId ] :
        d \in { -1, 0, EXPIRY_THRESHOLD, EXPIRY_THRESHOLD + 1 },
        st \in { "Active", "Due for Renewal", "Expired", "Renewal Done" } }

InitWindow ==
    /\ now \in FirstTick .. (FirstTick + TicksPerDay - 1)
    /\ table \in { TableOf(first, second) :
                      first \in WindowItems, second \in { NoItem, SecondItem } }
    /\ logs = 0
    /\ mon = IdleMon
    /\ lastMerge = NoMerge
    /\ sweeps = NoSweeps
    /\ calc = NoCalc
    /\ snow = NoSnow
    /\ tix = IdleTix
    /\ api = NoApi
    /\ acm = NoAcm

SpecWindow == InitWindow /\ [][NextSweep]_vars

\* The monitor sweep and the webhook on the same record at one instant.
\* The first item expires tomorrow, so no sweep of the run finds it expired.
RaceItems ==
    { [ NoItem EXCEPT !.exists = TRUE, !.ExpiryDate = Ymd(BaseDay + 1),
          !.Status = st, !.OwnerEmail = "a@x.com", !.IncidentNumber = "INC001",
          !.CommonName = DomainName, !.AccountNumber = AccountId ] :
        st \in { "Active", "Due for Renewal" } }

InitRace ==
    /\ now = FirstTick
    /\ table \in { TableOf(first, second) :
                      first \in RaceItems, second \in { NoItem, SecondItem } }
    /\ logs = 0
    /\ mon = IdleMon
    /\ lastMerge = NoMerge
    /\ sweeps = NoSweeps
    /\ calc = NoCalc
    /\ snow = NoSnow
    /\ tix = IdleTix
    /\ api = NoApi
    /\ acm = NoAcm

NextRace ==
    \/ MonitorScan(TRUE)
    \/ \E dbOk \in BOOLEAN, logOk \in BOOLEAN : MonitorUpdate(dbOk, logOk)
    \/ MonitorFinish
    \/ \E state \in { "1", "2", "6" }, dbOk \in BOOLEAN :
          Webhook("cert-1", "INC001", state, dbOk)

SpecRace == InitRace /\ [][NextRace]_vars

\* The webhook alone, on requests with and without a signature.
NextHook ==
    \E signature \in Signatures, body_text \in BodyTexts,
       secret \in { WebhookSecret, Absent }, c \in RequestIDs,
       st \in WebhookStates, dbOk \in BOOLEAN :
        WebhookRequest(signature, body_text, secret, c, "INC002", st, dbOk)

SpecHook == InitApi /\ [][NextHook]_vars

----------------------------------------------------------------------------
(* The spreadsheet importers *)

\* The cells of the expiry column: empty, an Excel datetime, a string in
\* one of the known formats, and a string in none of them.
ExcelCells ==
    { NoDate, [ fmt |-> "datetime", day |-> BaseDay + 45 ],
      Ymd(BaseDay + 10), RawDate }

ExcelNames == { "www.example.com", "api.example.com" }

ExcelRows == [ CertificateName : ExcelNames, ExpiryDate : ExcelCells ]

\* The spreadsheets: one or two data rows.
ExcelSheets == { <<r>> : r \in ExcelRows } \cup { <<r, q>> : r, q \in ExcelRows }

\* excel_processor.parse_expiry_date: None for an empty cell, the date
\* re-formatted as %Y-%m-%d when it is a datetime or matches a format,
\* and the original string otherwise.
excel_parse_expiry_date(date_value) ==
    IF date_value.fmt = "none" THEN NoDate
    ELSE IF date_value.fmt \in { "datetime", "ymd" } THEN Ymd(date_value.day)
    ELSE date_value

\* excel_processor.prepare_certificate_data; None values are removed.
prepare_certificate_data(row) ==
    LET expiry_date == excel_parse_expiry_date(row.ExpiryDate) IN
    [ NoItem EXCEPT
        !.exists = TRUE,
        !.CertificateName = row.CertificateName,
        !.ExpiryDate = expiry_date,
        !.Status = excel_calculate_certificate_status(expiry_date),
        !.LastUpdatedOn = now ]

\* import_certificates.CertificateImporter.parse_date
importer_parse_date(date_value) ==
    IF date_value.fmt = "none" THEN NoDate
    ELSE IF date_value.fmt \in { "datetime", "ymd" } THEN Ymd(date_value.day)
    ELSE date_value

\* The certificate read_excel_file builds from a row: the sheet has no
\* Status column, so the status is the default 'Unknown'.
importer_certificate(row) ==
    [ NoItem EXCEPT
        !.exists = TRUE,
        !.CertificateName = row.CertificateName,
        !.ExpiryDate = importer_parse_date(row.ExpiryDate),
        !.Status = "Unknown",
        !.LastUpdatedOn = now ]

\* The identifiers uuid.uuid4() can return: those of no stored record.
FreshIDs == { c \in CertIDs : ~table[c].exists }

\* One fresh identifier per row of the sheet, all different.
FreshIDSeqs(sheet) ==
    { ids \in [ 1 .. Len(sheet) -> FreshIDs ] :
        \A i, j \in 1 .. Len(sheet) : i # j => ids[i] # ids[j] }

\* excel_processor.process_excel_file: every row gets a new identifier
\* and is put into the table; a failing put is caught and the loop goes
\* on with the next row.  One log entry is written per stored row.
ProcessExcel(sheet, ids, oks) ==
    /\ table' = [ c \in CertIDs |->
                    IF \E i \in 1 .. Len(sheet) : oks[i] /\ ids[i] = c
                    THEN prepare_certificate_data(
                           sheet[CHOOSE i \in 1 .. Len(sheet) :
                                   oks[i] /\ ids[i] = c])
                    ELSE table[c] ]
    /\ logs' = LogWritten(\E i \in 1 .. Len(sheet) : oks[i])
    /\ UNCHANGED << now, mon, lastMerge, sweeps, calc, ext >>

\* import_certificates.py: read_excel_file gives every non-empty row a
\* new identifier, import_certificates puts them through one batch
\* writer (the sheets here fit one batch of 25); an exception loses the
\* batch.
ImportCertificates(sheet, ids, batchOk) ==
    /\ table' = [ c \in CertIDs |->
                    IF batchOk /\ \E i \in 1 .. Len(sheet) : ids[i] = c
                    THEN importer_certificate(
                           sheet[CHOOSE i \in 1 .. Len(sheet) : ids[i] = c])
                    ELSE table[c] ]
    /\ UNCHANGED << now, logs, mon, lastMerge, sweeps, calc, ext >>

InitImport ==
    /\ now = FirstTick
    /\ table = [ c \in CertIDs |-> NoItem ]
    /\ logs = 0
    /\ mon = IdleMon
    /\ lastMerge = NoMerge
    /\ sweeps = NoSweeps
    /\ calc = NoCalc
    /\ snow = NoSnow
    /\ tix = IdleTix
    /\ api = NoApi
    /\ acm = NoAcm

NextImport ==
    \/ \E sheet \in ExcelSheets :
         \E ids \in FreshIDSeqs(sheet), oks \in [ 1 .. Len(sheet) -> BOOLEAN ] :
            ProcessExcel(sheet, ids, oks)
    \/ \E sheet \in ExcelSheets :
         \E ids \in FreshIDSeqs(sheet), batchOk \in BOOLEAN :
            ImportCertificates(sheet, ids, batchOk)

SpecImport == InitImport /\ [][NextImport]_vars

----------------------------------------------------------------------------
(* Properties of the status calculators (SpecCalc) *)

Reconcilers == { "calculate_new_status", "determine_certificate_status" }

StatusCalculators ==
    Reconcilers \cup { "excel_calculate_certificate_status",
                       "scanner_calculate_certificate_status",
                       "dashboard_calculate_status" }

\* expiryDate - today as calendar dates, at the moment of the call
DateDiff == calc.expiry.day - utc_date(calc.at)

\* C1: for every parsable expiry date and every prior status in
\* {"Renewal in Progress", "Renewal Done"}, calculate_new_status and
\* determine_certificate_status return the prior status unchanged.
C1_StickyStatusReturned ==
    ( /\ calc.fn \in Reconcilers
      /\ strptime_ok(calc.expiry)
      /\ calc.status \in ManualStatuses )
    => calc.result = calc.status

\* C3: for a prior status that is not sticky and an expiry date before
\* today, reconciliation returns "Expired" and reports a change exactly
\* when the prior status was not already "Expired".
C3_PastDateGivesExpired ==
    ( /\ calc.fn \in Reconcilers
      /\ strptime_ok(calc.expiry)
      /\ calc.status \notin ManualStatuses
      /\ DateDiff < 0 )
    => ( /\ calc.result = "Expired"
         /\ calc.changed <=> calc.status # "Expired" )

\* C3 witness: expiry = today - 10 days with status "Active" has been
\* reconciled by the monitor's calculator to ("Expired", changed).
C3_Witness ==
    /\ calc.fn = "calculate_new_status"
    /\ calc.expiry = Ymd(utc_date(calc.at) - 10)
    /\ calc.status = "Active"
    /\ calc.result = "Expired"
    /\ calc.changed

\* C4: for a prior status that is not sticky and a parsable expiry date,
\* reconciliation returns "Due for Renewal" when 0 <= expiryDate - today <=
\* threshold and "Active" when expiryDate - today > threshold.
C4_DueWithinThresholdElseActive ==
    ( /\ calc.fn \in Reconcilers
      /\ strptime_ok(calc.expiry)
      /\ calc.status \notin ManualStatuses )
    => ( /\ (0 <= DateDiff /\ DateDiff <= EXPIRY_THRESHOLD)
               => calc.result = "Due for Renewal"
         /\ DateDiff > EXPIRY_THRESHOLD => calc.result = "Active" )

\* C5: at every time of day a certificate that expires today has
\* daysUntilExpiry = 0 and is classified "Due for Renewal" by every status
\* calculator (the ticket creator computes the days only).
C5_ExpiryTodayIsZeroDaysAndDue ==
    ( /\ calc.fn # "none"
      /\ strptime_ok(calc.expiry)
      /\ DateDiff = 0 )
    => ( /\ calc.days = { 0 }
         /\ (calc.fn \in StatusCalculators /\ calc.status \notin ManualStatuses)
               => calc.result = "Due for Renewal" )

\* C7: reconciling an unparsable expiry date ends in an error and returns
\* no status at all, neither a lifecycle status nor a default.
C7_UnparsableDateIsAnError ==
    ( /\ calc.fn \in StatusCalculators
      /\ calc.expiry = RawDate )
    => ( /\ calc.raised
         /\ calc.result \notin Statuses \ { "" } )

\* The priority as a number: a larger value is a lower priority.
PriorityValue(p) ==
    CASE p = "1" -> 1 [] p = "2" -> 2 [] p = "3" -> 3 [] p = "4" -> 4
      [] p = "5" -> 5

----------------------------------------------------------------------------
(* Properties of the automated passes *)

\* C2: once an item's stored Status is "Renewal in Progress" or "Renewal
\* Done", no step of an automated pass (monitor sweep, ACM sync update,
\* server-scan store) changes it to a date-derived value.
C2_StickyStatusNeverOverwritten ==
    [][ \A c \in CertIDs :
          (table[c].exists /\ table[c].Status \in ManualStatuses)
          => table'[c].Status \notin DateStatuses ]_vars

\* C6: an automated pass leaves the stored Status of an existing item
\* whose ExpiryDate is not a canonical date exactly as it was.
C6_UnparsableExpiryKeepsStatus ==
    [][ \A c \in CertIDs :
          (table[c].exists /\ ~strptime_ok(table[c].ExpiryDate))
          => table'[c].Status = table[c].Status ]_vars

\* The monitor's loop processes the head of its list in this step.
SweepStep == mon.pc = "update" /\ mon.items # << >> /\ mon' # mon

C9_PreservedFieldsKept ==
    [][ \A c \in CertIDs, f \in PRESERVE_FIELDS :
          (table[c].exists /\ NonEmpty(Preserved(table[c])[f]))
          => Preserved(table'[c])[f] = Preserved(table[c])[f] ]_vars

\* C9 witness: an item whose preserved fields are all populated has been
\* updated by a server scan and by an ACM sync.
C9_Witness ==
    /\ \A f \in PRESERVE_FIELDS : NonEmpty(Preserved(table["cert-1"])[f])
    /\ table["cert-1"].LastScannedOn > 0
    /\ table["cert-1"].LastSyncedFromACM > 0
    /\ table["cert-1"].ACM_ARN # Absent

\* C10: applying to an item the observation that was last merged into it,
\* while the item is still as that merge left it, leaves the item equal.
C10_MergeTwiceEqualsOnce ==
    [][ ( /\ lastMerge'.flip # lastMerge.flip
          /\ lastMerge.src # "none"
          /\ lastMerge'.src = lastMerge.src
          /\ lastMerge'.id = lastMerge.id
          /\ lastMerge'.obs = lastMerge.obs
          /\ table[lastMerge.id] = lastMerge.after )
        => table'[lastMerge.id] = table[lastMerge.id] ]_vars

----------------------------------------------------------------------------
(* Properties of the API and webhook handlers (SpecApi) *)

\* A request has been served in this step.
Served == api'.flip # api.flip

\* C18 as stated: a webhook that is accepted stores the Status the table
\* new -> "Pending Assignment", in-progress -> "Renewal in Progress",
\* resolved, closed -> "Renewal Done", canceled -> "Renewal Canceled" gives
\* for the incident state, and for every incoming state the stored Status is
\* one of these four values.
C18_WebhookStatusFromFourValues ==
    [][ (Served /\ api'.op = "webhook" /\ api'.code = 200)
        => LET stored == table'[api'.id].Status IN
           /\ api'.state = "1" => stored = "Pending Assignment"
           /\ api'.state = "2" => stored = "Renewal in Progress"
           /\ api'.state \in { "6", "7" } => stored = "Renewal Done"
           /\ api'.state = "8" => stored = "Renewal Canceled"
           /\ stored \in { "Pending Assignment", "Renewal in Progress",
                            "Renewal Done", "Renewal Canceled" } ]_vars

\* C18 as amended: a webhook that is accepted stores the Status the fixed
\* table gives for the incident state, whatever the item held before: new ->
\* "Pending Assignment", in-progress -> "Renewal in Progress", on-hold ->
\* "On Hold", resolved and closed -> "Renewal Done", canceled -> "Renewal
\* Canceled", and "Unknown" for every other or missing state.
C18_WebhookStatusFromMapping ==
    [][ (Served /\ api'.op = "webhook" /\ api'.code = 200)
        => LET stored == table'[api'.id].Status IN
           /\ api'.state = "1" => stored = "Pending Assignment"
           /\ api'.state = "2" => stored = "Renewal in Progress"
           /\ api'.state = "3" => stored = "On Hold"
           /\ api'.state \in { "6", "7" } => stored = "Renewal Done"
           /\ api'.state = "8" => stored = "Renewal Canceled"
           /\ api'.state \notin { "1", "2", "3", "6", "7", "8" }
                 => stored = "Unknown" ]_vars

\* C18 witness: a webhook with the on-hold state has been accepted for an
\* item that was "Renewal in Progress", and the item is now "On Hold".
C18_Witness ==
    /\ api.op = "webhook"
    /\ api.code = 200
    /\ api.state = "3"
    /\ api.old = "Renewal in Progress"
    /\ table[api.id].Status = "On Hold"

\* C19: an update request (webhook, API PUT, dashboard PUT) for a
\* certificate id under which nothing is stored ends in a not-found error
\* and leaves the set of stored ids as it was.
C19_UpdateOfAbsentIdIsNotFound ==
    [][ (Served /\ api'.id \in CertIDs /\ ~table[api'.id].exists)
        => /\ \A c \in CertIDs : table'[c].exists = table[c].exists
           /\ api'.code = 404 ]_vars

----------------------------------------------------------------------------
(* Properties of the ticket creator (SpecTicket) *)

\* The IncidentNumber a run read from storage for a certificate, trimmed.
ReadIncident(cert) == strip(get(cert.item.IncidentNumber, ""))

\* C12: within a run no certificate whose IncidentNumber as read from
\* storage is non-empty after trimming is in the list
\* filter_certificates_needing_tickets returned, and no incident is
\* requested for one.
C12_NoTicketWhenIncidentRead ==
    [][ /\ \A i \in 1..Len(tix'.items) : ReadIncident(tix'.items[i]) = ""
        /\ \A c \in CertIDs :
             snow'[c] # snow[c]
             => /\ tix.items # << >>
                /\ Head(tix.items).id = c
                /\ ReadIncident(Head(tix.items)) = "" ]_vars

\* C12 witness: a run has requested an incident for the second
\* certificate and none for the first, whose IncidentNumber is " INC001 ".
C12_Witness ==
    /\ tix.pc = "create"
    /\ table["cert-1"].IncidentNumber = " INC001 "
    /\ table["cert-1"].Status = "Active"
    /\ snow["cert-1"] = 0
    /\ snow["cert-2"] = 1

\* C13: over any sequence of runs, with any failures, at most one
\* incident is created per certificate (nothing in this specification
\* clears an IncidentNumber).
C13_AtMostOneTicketPerCertificate ==
    \A c \in CertIDs : snow[c] <= 1


----------------------------------------------------------------------------
(* Properties of the merge of an observation and of the ACM sync runs.     *)

C17_FailedRecordHasErrorEntry ==
    acm.raised => acm.errors >= 1

\* C20 as stated: the table never holds two records with the same
\* (AccountNumber, CommonName).
C20_OneRecordPerAccountAndDomain ==
    \A c \in CertIDs, d \in CertIDs :
        (/\ c # d
         /\ table[c].exists
         /\ table[d].exists
         /\ table[c].AccountNumber = table[d].AccountNumber)
        => table[c].CommonName # table[d].CommonName


----------------------------------------------------------------------------
(* Properties of the notifications.                                        *)

\* The record has an address with an '@' under OwnerEmail or SupportEmail.
HasContact(item) ==
    HasAt(strip(get(item.OwnerEmail, ""))) \/ HasAt(strip(get(item.SupportEmail, "")))

\* A step that starts a monitor run.
MonitorStarts == mon.pc = "idle" /\ mon' # mon

\* A step that serves a PUT of the API.
PutServed == Served /\ api'.op = "put"

C16_SendFailureKeepsStatusWrites ==
    [][ /\ MonitorStarts =>
            /\ table' = table
            /\ mon'.pc = "update"
            /\ mon'.items = scan_expiring_certificates
        /\ (PutServed /\ api'.code = 200 /\ api'.new # Absent) =>
            table'[api'.id].Status = api'.new
      ]_vars

\* A monitor run whose sends failed has updated a status, after a PUT
\* whose mail failed stored its status.
C16_Witness ==
    /\ mon.sendFailed
    /\ mon.updated > 0
    /\ api.op = "put"
    /\ api.code = 200
    /\ api.notify
    /\ ~api.sent


----------------------------------------------------------------------------
(* Frame properties of the writes.                                         *)

\* A step in which the ACM sync has merged a certificate into an item.
AcmMerged == lastMerge'.src = "acm" /\ lastMerge'.flip # lastMerge.flip

C22_WriteRefreshesLastUpdatedOn ==
    [][ \A c \in CertIDs :
          (table[c].exists /\ table'[c] # table[c]) =>
              table'[c].LastUpdatedOn = now ]_vars


\* C23 as stated: every ExpiryDate an ingestion writes is in the format
\* YYYY-MM-DD; a date that cannot be parsed is never stored.
C23_StoredExpiryDateIsCanonical ==
    [][ \A c \in CertIDs :
          (table'[c].exists /\ table'[c].ExpiryDate # table[c].ExpiryDate) =>
              table'[c].ExpiryDate.fmt = "ymd" ]_vars


\* The expiry date lies in the window of the scan of the running sweep.
InScanWindow(expiry_date) ==
    /\ expiry_date.fmt = "ymd"
    /\ sweeps.scanDay <= expiry_date.day
    /\ expiry_date.day <= sweeps.scanDay + EXPIRY_THRESHOLD

\* C26: the monitor sweep changes only records whose expiry date was in
\* the window today .. today + EXPIRY_THRESHOLD at its scan; every other
\* record, the already expired ones included, keeps all its fields.
C26_SweepWritesOnlyInsideWindow ==
    [][ (mon.pc = "update" \/ mon'.pc = "update") =>
          \A c \in CertIDs :
              table'[c] # table[c] =>
                  /\ mon.pc = "update"
                  /\ mon.items # << >>
                  /\ c = Head(mon.items).id
                  /\ InScanWindow(Head(mon.items).item.ExpiryDate)
                  /\ InScanWindow(table[c].ExpiryDate) ]_vars

\* A sweep has updated a record while a record that expired before the
\* scan is still as it was stored.
C26_Witness ==
    /\ mon.pc = "update"
    /\ mon.updated > 0
    /\ table["cert-1"].ExpiryDate.day < sweeps.scanDay
    /\ table["cert-1"].Status = "Active"
    /\ table["cert-1"].LastUpdatedOn = 0

\* C27: every Status the monitor sweep writes is "Expired" or "Due for
\* Renewal"; it never writes "Active" and never a sticky status.
C27_SweepWritesExpiredOrDue ==
    [][ SweepStep =>
          \A c \in CertIDs :
              table'[c] # table[c] =>
                  table'[c].Status \in { "Expired", "Due for Renewal" } ]_vars

\* The sweep has written "Due for Renewal" to a record on the last day of
\* its window.
C27_Witness ==
    /\ mon.updated > 0
    /\ table["cert-1"].ExpiryDate = Ymd(sweeps.scanDay + EXPIRY_THRESHOLD)
    /\ table["cert-1"].Status = "Due for Renewal"
    /\ table["cert-1"].LastUpdatedOn > 0


\* C25 as stated: a sticky Status the webhook stored after the scan of a
\* running sweep is not overwritten by the sweep: a step of the sweep on a
\* record whose stored Status is sticky leaves that Status.
C25_SweepKeepsWebhookStatus ==
    [][ SweepStep =>
          LET c == Head(mon.items).id
          IN  table[c].Status \in ManualStatuses =>
                  table'[c].Status = table[c].Status ]_vars


----------------------------------------------------------------------------
(* Properties of the dashboard PUT and of the ticket counters.             *)

\* The status the dashboard derives from an ExpiryDate of a request.
DerivedStatus(expiry_date) ==
    IF expiry_date.fmt # "ymd" THEN "Unknown"
    ELSE IF expiry_date.day * TicksPerDay < now THEN "Expired"
    ELSE IF (expiry_date.day * TicksPerDay - now) \div TicksPerDay <= 30
         THEN "Due for Renewal"
    ELSE "Active"

\* C29: a dashboard PUT that writes and carries an ExpiryDate stores the
\* status derived from that date, whatever Status the request supplies and
\* whatever status is stored, sticky ones included; one without ExpiryDate
\* stores the Status supplied.
C29_DashboardPutDerivesStatus ==
    [][ (Served /\ api'.op = "dashboard-put" /\ api'.id = "cert-1") =>
          \A e \in PutExpiryDates, s \in DashboardStatuses, logOk \in BOOLEAN :
              DashboardPut("cert-1", e, s, TRUE, logOk)
              => /\ e # NoDate =>
                      /\ table'["cert-1"].Status = DerivedStatus(e)
                      /\ table'["cert-1"].ExpiryDate = e
                 /\ (e = NoDate /\ s # Absent) => table'["cert-1"].Status = s
      ]_vars

\* A PUT with an ExpiryDate and the Status "Renewal Done" has replaced the
\* stored "Renewal in Progress" by "Active".
C29_Witness ==
    /\ api.op = "dashboard-put"
    /\ api.code = 200
    /\ api.old = "Renewal in Progress"
    /\ api.new = "Active"
    /\ table["cert-1"].Status = "Active"
    /\ table["cert-1"].ExpiryDate = Ymd(BaseDay + 45)


\* C30: in a run of process_ticket_creation over n certificates the
\* counters created, failed and skipped and the certificates still to
\* process add up to n (so created + failed + skipped = n at its end, after
\* a credential failure too); created is the number of IncidentNumber
\* writes of the run; with DRY_RUN created is 0 and no record, incident or
\* log entry is written.
C30_TicketCountersAddUp ==
    [][ /\ tix'.pc = "create" =>
            /\ tix'.created + tix'.failed + tix'.skipped + Len(tix'.items) = tix'.n
            /\ tix'.created = tix'.written
            /\ tix'.dry => tix'.created = 0
        /\ (tix.pc = "create" /\ tix.dry /\ tix' # tix) =>
            (table' = table /\ snow' = snow /\ logs' = logs)
        /\ \A c \in CertIDs :
              (tix' # tix /\ table'[c].IncidentNumber # table[c].IncidentNumber) =>
                  tix'.created = tix.created + 1
      ]_vars

\* A run over two certificates has ended with one ticket created and
\* written back and one failure.
C30_Witness ==
    /\ tix.pc = "create"
    /\ tix.items = << >>
    /\ ~tix.dry
    /\ tix.n = 2
    /\ tix.created = 1
    /\ tix.failed = 1
    /\ tix.written = 1


----------------------------------------------------------------------------
(* Properties of the webhook signature.                                    *)

\* A step of the webhook handler; the request is answered with 401 and
\* nothing stored changes.  The properties say that no step that is not
\* such a rejection is the handler's step on a request they describe.
HookServed == Served /\ api'.op = "webhook"
HookRejected == api'.code = 401 /\ table' = table /\ logs' = logs

\* C24 as stated: a request whose signature header is not the HMAC-SHA256
\* of its body under the webhook secret is answered with 401 and changes
\* no record and no log entry, also when the secret cannot be retrieved.
C24_BadSignatureRejected ==
    [][ (HookServed /\ ~HookRejected) =>
          \A signature \in Signatures \ { Absent }, body_text \in BodyTexts,
             secret \in { WebhookSecret, Absent }, dbOk \in BOOLEAN :
              signature # hmac_sha256(WebhookSecret, body_text)
              => ~WebhookRequest(signature, body_text, secret, api'.id,
                                 "INC002", api'.state, dbOk) ]_vars

\* C24, amended: when the secret is retrieved, a request whose signature
\* header is not the HMAC-SHA256, under the secret, of the compact
\* key-sorted serialisation of its parsed body is answered with 401 and
\* changes no record and no log entry.
C24_BadSignatureRejectedWithSecret ==
    [][ (HookServed /\ ~HookRejected) =>
          \A signature \in Signatures \ { Absent }, body_text \in BodyTexts,
             dbOk \in BOOLEAN :
              signature # hmac_sha256(WebhookSecret, "compact")
              => ~WebhookRequest(signature, body_text, WebhookSecret, api'.id,
                                 "INC002", api'.state, dbOk) ]_vars

\* A request has been rejected with 401 after another one was accepted and
\* stored its status.
C24_Witness ==
    /\ api.op = "webhook"
    /\ api.code = 401
    /\ table["cert-1"].IncidentNumber = "INC002"
    /\ table["cert-1"].Status = "Renewal Done"

----------------------------------------------------------------------------
(* Properties of the spreadsheet importers (SpecImport) *)

\* The record with the content of another: same name, same expiry date.
MatchingRecord(item, other) ==
    /\ other.exists
    /\ other.CertificateName = item.CertificateName
    /\ other.ExpiryDate = item.ExpiryDate

\* C21: an import pass creates a record only when no matching record
\* exists, so processing a spreadsheet whose rows are all stored already
\* does not increase the number of stored records: no step stores a new
\* record with the name and expiry date of a record that was stored
\* before the step.
C21_ImportCreatesOnlyUnmatched ==
    [][ \A c \in CertIDs :
          (~table[c].exists /\ table'[c].exists)
          => ~\E d \in CertIDs : MatchingRecord(table'[c], table[d]) ]_vars

====
